---- MODULE Spec2Model ----
(***************************************************************************)
(* PitchRegistry (src/Pitch-registry.sol): a write-once registry of pitch  *)
(* scores, writable by the owner fixed at construction, readable by        *)
(* anyone.  Every step of the model is one external call executed         *)
(* atomically by the chain: a transaction calling recordPitchScore, or a   *)
(* call of the view function getPitchScore.                                *)
(***************************************************************************)
EXTENDS Integers, Sequences, FiniteSets, TLC

\* ---------------------------------------------------------------- bounds
\* overallScore arguments range over 0..MaxScore
MaxScore == 1
\* block timestamps range over 1..MaxTime
MaxTime == 2
\* where the clock may stand at 0 a record can be written again and again:
\* the event log is followed up to MaxEvents events
MaxEvents == 3

\* ---------------------------------------------------------------- values
\* externally owned accounts that deploy and call the contract
Senders == {"0xA1", "0xB2"}
\* address(0), the default value of an address in storage
ZeroAddress == "0x00"
\* bytes32(0), the default value of a bytes32 in storage
ZeroBytes32 == "0x0000"
\* bytes32 pitch identifiers used as mapping keys
PitchIds == {"H1", "H2"}
\* bytes32 proof hashes passed as _zkpHash
ZkpHashes == {ZeroBytes32, "0xAAAA"}
\* uint256 values passed as _overallScore
OverallScores == 0 .. MaxScore
\* values passed as (_clarityScore, _originalityScore, _teamStrengthScore,
\* _marketFitScore): all zero, or four different values above MaxScore
ComponentScores ==
    { <<0, 0, 0, 0>>,
      <<MaxScore + 1, MaxScore + 2, MaxScore + 3, MaxScore + 4>> }
\* block.timestamp of a block that holds a transaction: strictly greater
\* than its parent's, hence positive
Timestamps == 1 .. MaxTime
\* the values of an injected clock that may also stand at 0
ClockValues == 0 .. MaxTime

\* revert reasons of the require statements
ErrOnlyOwner == "Only owner can call this function"
ErrAlreadyRecorded == "Pitch score already recorded for this ID"
ErrNotPositive == "Overall score must be positive"
ErrNotFound == "Pitch score not found for this ID"
\* status of a call that did not revert
Ok == "ok"

VARIABLES
    owner,           \* address public owner
    pitchScores,     \* mapping(bytes32 => PitchScoreEntry) public pitchScores
    events,          \* the log of PitchScoreRecorded events, oldest first
    blockTimestamp,  \* block.timestamp of the latest block
    deployer,        \* msg.sender of the constructor (history)
    written,         \* per pitch id, the latest call of recordPitchScore
                     \* that did not revert, or NoWrite (history)
    firstValid,      \* per pitch id, the first call of recordPitchScore in
                     \* the serial order made by the owner with a positive
                     \* overallScore, or NoWrite (history)
    last             \* the latest call, with its arguments and outcome

vars ==
    <<owner, pitchScores, events, blockTimestamp, deployer, written,
      firstValid, last>>

\* the value every key of a mapping holds before it is assigned
EmptyEntry ==
    [ overallScore |-> 0, clarityScore |-> 0, originalityScore |-> 0,
      teamStrengthScore |-> 0, marketFitScore |-> 0, zkpHash |-> ZeroBytes32,
      timestamp |-> 0, recordedBy |-> ZeroAddress ]

NoWrite == [ op |-> "none" ]
NoCall == [ op |-> "none" ]

\* a constructor that installs a hard-coded address as the owner
ConstructorHardCoded(msgSender) == "0xA1"

\* constructor(): owner = msg.sender
Constructor(msgSender) == msgSender

Init ==
    /\ deployer \in Senders
    /\ owner = Constructor(deployer)
    /\ pitchScores = [ id \in PitchIds |-> EmptyEntry ]
    /\ events = << >>
    /\ blockTimestamp \in Timestamps
    /\ written = [ id \in PitchIds |-> NoWrite ]
    /\ firstValid = [ id \in PitchIds |-> NoWrite ]
    /\ last = NoCall

\* an onlyOwner that only rejects the zero address
OnlyOwnerNonZero(msgSender) == msgSender # ZeroAddress

\* modifier onlyOwner: require(msg.sender == owner, ...)
OnlyOwner(msgSender) == msgSender = owner

\* a duplicate check that tests a field a record may hold as zero
NotYetRecordedByClarity(pitchId) == pitchScores[pitchId].clarityScore = 0

\* a recordPitchScore without the duplicate check
NotYetRecordedUnchecked(pitchId) == TRUE

\* require(pitchScores[_pitchId].timestamp == 0, ...)
NotYetRecorded(pitchId) == pitchScores[pitchId].timestamp = 0

\* a score check with its threshold one too high
ScoreAboveOne(overallScore) == overallScore > 1

\* a score check that accepts zero
ScoreNonNegative(overallScore) == overallScore >= 0

\* require(_overallScore > 0, ...)
ScorePositive(overallScore) == overallScore > 0

\* the two require statements of the body in the opposite order
RecordStatusSwapped(msgSender, pitchId, overallScore) ==
    IF ~OnlyOwner(msgSender) THEN ErrOnlyOwner
    ELSE IF ~ScorePositive(overallScore) THEN ErrNotPositive
    ELSE IF ~NotYetRecorded(pitchId) THEN ErrAlreadyRecorded
    ELSE Ok

\* the status of recordPitchScore: the first failing require, in the order
\* the modifier and the body evaluate them, or Ok
RecordStatus(msgSender, pitchId, overallScore) ==
    IF ~OnlyOwner(msgSender) THEN ErrOnlyOwner
    ELSE IF ~NotYetRecorded(pitchId) THEN ErrAlreadyRecorded
    ELSE IF ~ScorePositive(overallScore) THEN ErrNotPositive
    ELSE Ok

\* an entry written without its proof hash
NewEntryWithoutHash(msgSender, now, overallScore, comp, zkpHash) ==
    [ overallScore |-> overallScore,
      clarityScore |-> comp[1],
      originalityScore |-> comp[2],
      teamStrengthScore |-> comp[3],
      marketFitScore |-> comp[4],
      zkpHash |-> ZeroBytes32,
      timestamp |-> now,
      recordedBy |-> msgSender ]

\* an entry whose timestamp field is filled from the wrong value
NewEntryWrongTimestamp(msgSender, now, overallScore, comp, zkpHash) ==
    [ overallScore |-> overallScore,
      clarityScore |-> comp[1],
      originalityScore |-> comp[2],
      teamStrengthScore |-> comp[3],
      marketFitScore |-> comp[4],
      zkpHash |-> zkpHash,
      timestamp |-> overallScore,
      recordedBy |-> msgSender ]

\* PitchScoreEntry({...}) as recordPitchScore builds it
NewEntry(msgSender, now, overallScore, comp, zkpHash) ==
    [ overallScore |-> overallScore,
      clarityScore |-> comp[1],
      originalityScore |-> comp[2],
      teamStrengthScore |-> comp[3],
      marketFitScore |-> comp[4],
      zkpHash |-> zkpHash,
      timestamp |-> now,
      recordedBy |-> msgSender ]

\* an event that carries the timestamp stored before the write
NewEventStaleTimestamp(msgSender, now, pitchId, overallScore, zkpHash) ==
    [ pitchId |-> pitchId,
      overallScore |-> overallScore,
      zkpHash |-> zkpHash,
      timestamp |-> pitchScores[pitchId].timestamp,
      recordedBy |-> msgSender ]

\* the arguments of emit PitchScoreRecorded(...)
NewEvent(msgSender, now, pitchId, overallScore, zkpHash) ==
    [ pitchId |-> pitchId,
      overallScore |-> overallScore,
      zkpHash |-> zkpHash,
      timestamp |-> now,
      recordedBy |-> msgSender ]

\* a write that a failed score check does not undo
PitchScoresAfterNoRollback(status, pitchId, entry) ==
    IF status \in {Ok, ErrNotPositive}
    THEN [ pitchScores EXCEPT ![pitchId] = entry ]
    ELSE pitchScores

\* storage after recordPitchScore: the assignment happens only when no
\* require failed (a revert discards the transaction's writes)
PitchScoresAfter(status, pitchId, entry) ==
    IF status = Ok THEN [ pitchScores EXCEPT ![pitchId] = entry ]
    ELSE pitchScores

\* a log that puts the newest event first
EventsAfterPrepend(status, event) ==
    IF status = Ok THEN << event >> \o events ELSE events

\* the event log after recordPitchScore
EventsAfter(status, event) ==
    IF status = Ok THEN Append(events, event) ELSE events

\* a transaction calling recordPitchScore, mined in a block with timestamp now
recordPitchScore(msgSender, now, pitchId, overallScore, comp, zkpHash) ==
    LET status == RecordStatus(msgSender, pitchId, overallScore)
        call == [ op |-> "recordPitchScore", sender |-> msgSender,
                  now |-> now, pitchId |-> pitchId,
                  overallScore |-> overallScore, comp |-> comp,
                  zkpHash |-> zkpHash ]
    IN  /\ now >= blockTimestamp
        /\ blockTimestamp' = now
        /\ pitchScores' =
              PitchScoresAfter(status, pitchId,
                  NewEntry(msgSender, now, overallScore, comp, zkpHash))
        /\ events' =
              EventsAfter(status,
                  NewEvent(msgSender, now, pitchId, overallScore, zkpHash))
        /\ written' =
              IF status = Ok THEN [ written EXCEPT ![pitchId] = call ]
              ELSE written
        /\ firstValid' =
              IF /\ firstValid[pitchId] = NoWrite
                 /\ msgSender = owner
                 /\ overallScore > 0
              THEN [ firstValid EXCEPT ![pitchId] = call ]
              ELSE firstValid
        /\ last' = call @@ [ status |-> status ]
        /\ UNCHANGED <<owner, deployer>>

\* a getPitchScore that returns two component scores in each other's place
GetPitchScoreResultSwapped(pitchId) ==
    LET entry == pitchScores[pitchId]
    IN  IF entry.timestamp # 0
        THEN [ status |-> Ok,
               ret |-> << entry.overallScore, entry.originalityScore,
                          entry.clarityScore, entry.teamStrengthScore,
                          entry.marketFitScore, entry.zkpHash,
                          entry.timestamp, entry.recordedBy >> ]
        ELSE [ status |-> ErrNotFound ]

\* what getPitchScore(_pitchId) gives in the current state: a revert with
\* "Pitch score not found for this ID", or the eight fields of the entry
GetPitchScoreResult(pitchId) ==
    LET entry == pitchScores[pitchId]
    IN  IF entry.timestamp # 0
        THEN [ status |-> Ok,
               ret |-> << entry.overallScore, entry.clarityScore,
                          entry.originalityScore, entry.teamStrengthScore,
                          entry.marketFitScore, entry.zkpHash,
                          entry.timestamp, entry.recordedBy >> ]
        ELSE [ status |-> ErrNotFound ]

\* a getPitchScore that carries the onlyOwner modifier
GetPitchScoreOnlyOwner(msgSender, pitchId) ==
    IF OnlyOwner(msgSender) THEN GetPitchScoreResult(pitchId)
    ELSE [ status |-> ErrOnlyOwner ]

\* getPitchScore as msgSender calls it: external view, without a modifier
GetPitchScoreCall(msgSender, pitchId) == GetPitchScoreResult(pitchId)

\* a call of the view function getPitchScore by anyone
getPitchScore(msgSender, pitchId) ==
    /\ last' = [ op |-> "getPitchScore", sender |-> msgSender,
                 pitchId |-> pitchId ] @@ GetPitchScoreCall(msgSender, pitchId)
    /\ UNCHANGED <<owner, pitchScores, events, blockTimestamp, deployer,
                   written, firstValid>>

\* what the getter the compiler generates for the public mapping gives:
\* the eight fields of pitchScores[key], whatever they hold; it has no require
PitchScoresGetterResult(key) ==
    LET entry == pitchScores[key]
    IN  [ status |-> Ok,
          ret |-> << entry.overallScore, entry.clarityScore,
                     entry.originalityScore, entry.teamStrengthScore,
                     entry.marketFitScore, entry.zkpHash,
                     entry.timestamp, entry.recordedBy >> ]

\* a call of the generated getter pitchScores(bytes32) by anyone
pitchScoresGetter(msgSender, key) ==
    /\ last' = [ op |-> "pitchScores", sender |-> msgSender,
                 pitchId |-> key ] @@ PitchScoresGetterResult(key)
    /\ UNCHANGED <<owner, pitchScores, events, blockTimestamp, deployer,
                   written, firstValid>>

(***************************************************************************)
(* The demo page (src/Interact_script.js, src/index.html).  A step is one  *)
(* run of JavaScript to completion: an input event, a click handler up to  *)
(* its first await or its end, or the continuation of a suspended handler  *)
(* once the promise it awaits settles.                                     *)
(***************************************************************************)

\* a click on Analyze is followed while pitchIdCounter is below MaxCounter
MaxCounter == 2
\* a click on Analyze is followed while fewer than MaxHandlers handlers are
\* suspended
MaxHandlers == 2
\* if (fileText.length > 20000)
MaxFileChars == 20000
\* if (pitchContent.length > 10000)
MaxTextChars == 10000

\* values of pitchText.value: pad blank characters around core others
TextValues ==
    { [ pad |-> 0, core |-> 0 ],
      [ pad |-> 2, core |-> 0 ],
      [ pad |-> 0, core |-> MaxTextChars ],
      [ pad |-> 2, core |-> MaxTextChars ],
      [ pad |-> 0, core |-> MaxTextChars + 1 ] }
EmptyText == [ pad |-> 0, core |-> 0 ]
\* pitchText.value.trim().length
TrimLength(text) == text.core

\* pitchFile.files[0]: undefined, or a file that reads as chars characters
\* or whose reading fails
NoFile == [ name |-> "", chars |-> 0, readable |-> FALSE ]
Files ==
    { [ name |-> "small.txt", chars |-> MaxFileChars, readable |-> TRUE ],
      [ name |-> "large.txt", chars |-> MaxFileChars + 1, readable |-> TRUE ],
      [ name |-> "broken.pdf", chars |-> 0, readable |-> FALSE ] }

\* how the awaited agent call settles: a response with status "completed"
\* or "failed", or a rejection.  simulateAgentRun as written only resolves
\* with "completed"; the handler also handles the other two.
AgentOutcomes == { "completed", "failed", "rejected" }

MsgTooLargeFile == "File is too large. Please upload files under 20KB for this demo."
MsgReadError == "Error reading file"
MsgTooLongText == "Pitch text is too long. Please keep it under 10KB for this demo."
MsgNoInput == "Please upload a pitch file or paste pitch text."
MsgFailed == "Analysis Failed"
MsgUnexpected == "An unexpected error occurred"
MsgSuccess == "Pitch analysis completed successfully!"

VARIABLES
    dom,             \* the elements the script reads and writes
    pitchIdCounter,  \* let pitchIdCounter
    handlers,        \* the suspended runs of the Analyze click handler
    sentIds,         \* the pitch_id of every payload sent to the agent,
                     \* in order (history)
    lastRun          \* what the latest step ran (history)

uiVars == <<dom, pitchIdCounter, handlers, sentIds, lastRun>>

\* the page as index.html gives it
InitialDom ==
    [ pitchText |-> EmptyText,
      pitchFile |-> NoFile,
      buttonText |-> "Analyze Pitch",
      spinnerHidden |-> TRUE,
      analyzeDisabled |-> FALSE,
      clearDisabled |-> FALSE,
      resultsHidden |-> TRUE,
      messageHidden |-> TRUE,
      messageText |-> "",
      messageClass |-> "",
      statusText |-> "" ]

UiInit ==
    /\ dom = InitialDom
    /\ pitchIdCounter = 0
    /\ handlers = << >>
    /\ sentIds = << >>
    /\ lastRun = [ handler |-> "load", path |-> "", messaged |-> FALSE ]

\* function showMessage(message, type)
showMessage(d, message, type) ==
    [ d EXCEPT !.messageText = message,
               !.messageClass =
                   IF type = "error" THEN "bg-red-100 text-red-700"
                   ELSE "bg-green-100 text-green-700",
               !.messageHidden = FALSE ]

\* function hideMessage()
hideMessage(d) == [ d EXCEPT !.messageHidden = TRUE ]

\* a setLoading that leaves the Clear button enabled while loading
setLoadingKeepsClear(d, isLoading) ==
    IF isLoading
    THEN [ hideMessage(d) EXCEPT !.buttonText = "Analyzing...",
                                 !.spinnerHidden = FALSE,
                                 !.analyzeDisabled = TRUE,
                                 !.resultsHidden = TRUE ]
    ELSE [ d EXCEPT !.buttonText = "Analyze Pitch",
                    !.spinnerHidden = TRUE,
                    !.analyzeDisabled = FALSE,
                    !.clearDisabled = FALSE ]

\* a setLoading that leaves the results section as it is while loading
setLoadingKeepsResults(d, isLoading) ==
    IF isLoading
    THEN [ hideMessage(d) EXCEPT !.buttonText = "Analyzing...",
                                 !.spinnerHidden = FALSE,
                                 !.analyzeDisabled = TRUE,
                                 !.clearDisabled = TRUE ]
    ELSE [ d EXCEPT !.buttonText = "Analyze Pitch",
                    !.spinnerHidden = TRUE,
                    !.analyzeDisabled = FALSE,
                    !.clearDisabled = FALSE ]

\* function setLoading(isLoading)
setLoading(d, isLoading) ==
    IF isLoading
    THEN [ hideMessage(d) EXCEPT !.buttonText = "Analyzing...",
                                 !.spinnerHidden = FALSE,
                                 !.analyzeDisabled = TRUE,
                                 !.clearDisabled = TRUE,
                                 !.resultsHidden = TRUE ]
    ELSE [ d EXCEPT !.buttonText = "Analyze Pitch",
                    !.spinnerHidden = TRUE,
                    !.analyzeDisabled = FALSE,
                    !.clearDisabled = FALSE ]

\* function displayResults(results), by the status line it writes
displayResults(d, results) == [ d EXCEPT !.statusText = results.status ]

\* the decimal digits of n, most significant first
RECURSIVE Digits(_)
Digits(n) == IF n < 10 THEN << n >> ELSE Append(Digits(n \div 10), n % 10)

\* String(n).padStart(3, '0'), as a sequence of digits
RECURSIVE PadStart3(_)
PadStart3(digits) ==
    IF Len(digits) >= 3 THEN digits ELSE PadStart3(<< 0 >> \o digits)

\* `pitch_${String(pitchIdCounter).padStart(3, '0')}`
PitchIdOf(counter) == << "pitch_" >> \o PadStart3(Digits(counter))

\* seq without its i-th element
RemoveAt(seq, i) == SubSeq(seq, 1, i - 1) \o SubSeq(seq, i + 1, Len(seq))

\* the handler from pitchIdCounter++ to await simulateAgentRun(payload);
\* others are the handlers suspended beside this one
SendToAgent(d, file, inputType, others) ==
    LET currentPitchId == PitchIdOf(pitchIdCounter + 1)
    IN  /\ pitchIdCounter' = pitchIdCounter + 1
        /\ sentIds' = Append(sentIds, currentPitchId)
        /\ dom' = d
        /\ handlers' =
              Append(others, [ pc |-> "agent", file |-> file,
                               inputType |-> inputType,
                               pitchId |-> currentPitchId ])

\* a handler whose pitchIdCounter++ stands before the validation of the
\* input, so that a rejected input uses up a number too
RejectAfterIncrement(d, message, others) ==
    /\ dom' = setLoading(showMessage(d, message, "error"), FALSE)
    /\ handlers' = others
    /\ pitchIdCounter' = pitchIdCounter + 1
    /\ UNCHANGED sentIds

\* the handler ends after showing an error about its input
Reject(d, message, others) ==
    /\ dom' = setLoading(showMessage(d, message, "error"), FALSE)
    /\ handlers' = others
    /\ UNCHANGED <<pitchIdCounter, sentIds>>

\* what lastRun holds after a step that ran handler along path
Ran(handler, path, messaged) ==
    [ handler |-> handler, path |-> path, messaged |-> messaged ]

\* analyzeBtn click: from setLoading(true) to the first await or the return.
\* A disabled button gets no click event.
ClickAnalyze ==
    /\ ~dom.analyzeDisabled
    /\ pitchIdCounter < MaxCounter
    /\ Len(handlers) < MaxHandlers
    /\ LET d == setLoading(dom, TRUE)
           contentLength == TrimLength(dom.pitchText)
           file == dom.pitchFile
       IN  IF file # NoFile
           THEN /\ handlers' =
                      Append(handlers, [ pc |-> "readFile", file |-> file,
                                         inputType |-> "file",
                                         pitchId |-> << >> ])
                /\ dom' = d
                /\ lastRun' = Ran("analyzeClick", "awaitRead", FALSE)
                /\ UNCHANGED <<pitchIdCounter, sentIds>>
           ELSE IF contentLength > 0
           THEN IF contentLength > MaxTextChars
                THEN /\ Reject(d, MsgTooLongText, handlers)
                     /\ lastRun' = Ran("analyzeClick", "textTooLong", TRUE)
                ELSE /\ SendToAgent(d, file, "text", handlers)
                     /\ lastRun' = Ran("analyzeClick", "awaitAgent", FALSE)
           ELSE /\ Reject(d, MsgNoInput, handlers)
                /\ lastRun' = Ran("analyzeClick", "noInput", TRUE)

\* a suspended handler continues after await readFileAsync(file)
ReadSettles ==
    \E i \in 1 .. Len(handlers) :
        /\ handlers[i].pc = "readFile"
        /\ LET run == handlers[i]
               others == RemoveAt(handlers, i)
           IN  IF ~run.file.readable
               THEN /\ Reject(dom, MsgReadError, others)
                    /\ lastRun' = Ran("analyzeResume", "readError", TRUE)
               ELSE IF run.file.chars > MaxFileChars
               THEN /\ Reject(dom, MsgTooLargeFile, others)
                    /\ lastRun' = Ran("analyzeResume", "fileTooLarge", TRUE)
               ELSE /\ SendToAgent(dom, run.file, "file", others)
                    /\ lastRun' = Ran("analyzeResume", "awaitAgent", FALSE)

\* a handler whose setLoading(false) sits at the end of the try block
\* instead of in a finally block
AfterAgentWithoutFinally(d, outcome) ==
    IF outcome = "failed"
    THEN setLoading([ showMessage(d, MsgFailed, "error")
                          EXCEPT !.resultsHidden = TRUE ], FALSE)
    ELSE IF outcome = "rejected"
    THEN [ showMessage(d, MsgUnexpected, "error")
               EXCEPT !.resultsHidden = TRUE ]
    ELSE setLoading([ showMessage(displayResults(d, [ status |-> outcome ]),
                                  MsgSuccess, "success")
                          EXCEPT !.resultsHidden = FALSE ], FALSE)

\* the handler after await simulateAgentRun(payload): the try block, the
\* catch block and the finally block
AfterAgent(d, outcome) ==
    LET shown ==
            IF outcome = "failed"
            THEN [ showMessage(d, MsgFailed, "error")
                       EXCEPT !.resultsHidden = TRUE ]
            ELSE IF outcome = "rejected"
            THEN [ showMessage(d, MsgUnexpected, "error")
                       EXCEPT !.resultsHidden = TRUE ]
            ELSE [ showMessage(displayResults(d, [ status |-> outcome ]),
                               MsgSuccess, "success")
                       EXCEPT !.resultsHidden = FALSE ]
    IN  setLoading(shown, FALSE)

\* a suspended handler continues after await simulateAgentRun(payload)
AgentSettles ==
    \E i \in 1 .. Len(handlers), outcome \in AgentOutcomes :
        /\ handlers[i].pc = "agent"
        /\ dom' = AfterAgent(dom, outcome)
        /\ lastRun' = Ran("analyzeResume", outcome, TRUE)
        /\ handlers' = RemoveAt(handlers, i)
        /\ UNCHANGED <<pitchIdCounter, sentIds>>

\* clearBtn click.  A disabled button gets no click event.
ClickClear ==
    /\ ~dom.clearDisabled
    /\ dom' = setLoading(
                  hideMessage([ dom EXCEPT !.pitchFile = NoFile,
                                           !.pitchText = EmptyText,
                                           !.resultsHidden = TRUE ]),
                  FALSE)
    /\ lastRun' = Ran("clear", "", FALSE)
    /\ UNCHANGED <<pitchIdCounter, handlers, sentIds>>

\* the user edits the textarea, which is never disabled
TypeText ==
    \E text \in TextValues :
        /\ text # dom.pitchText
        /\ dom' = [ dom EXCEPT !.pitchText = text ]
        /\ lastRun' = Ran("input", "", FALSE)
        /\ UNCHANGED <<pitchIdCounter, handlers, sentIds>>

\* the user picks a file, or empties the file input, which is never disabled
ChooseFile ==
    \E file \in Files \cup { NoFile } :
        /\ file # dom.pitchFile
        /\ dom' = [ dom EXCEPT !.pitchFile = file ]
        /\ lastRun' = Ran("input", "", FALSE)
        /\ UNCHANGED <<pitchIdCounter, handlers, sentIds>>

UiNext ==
    \/ ClickAnalyze /\ UNCHANGED vars
    \/ ReadSettles /\ UNCHANGED vars
    \/ AgentSettles /\ UNCHANGED vars
    \/ ClickClear /\ UNCHANGED vars
    \/ TypeText /\ UNCHANGED vars
    \/ ChooseFile /\ UNCHANGED vars

\* ------------------------------------------------- the specifications
RecordStep ==
    \E msgSender \in Senders, now \in Timestamps, pitchId \in PitchIds,
       overallScore \in OverallScores, comp \in ComponentScores,
       zkpHash \in ZkpHashes :
        /\ recordPitchScore(msgSender, now, pitchId, overallScore, comp, zkpHash)
        /\ UNCHANGED uiVars

GetStep ==
    \E msgSender \in Senders, pitchId \in PitchIds :
        getPitchScore(msgSender, pitchId) /\ UNCHANGED uiVars

GetterStep ==
    \E msgSender \in Senders, key \in PitchIds :
        pitchScoresGetter(msgSender, key) /\ UNCHANGED uiVars

Next == RecordStep \/ GetStep \/ GetterStep

\* the registry on a chain: every block that holds a transaction has a
\* positive timestamp; the page does not take part
SpecInit == Init /\ UiInit
Spec == SpecInit /\ [][Next]_<<vars, uiVars>>

\* the registry in an environment whose clock may stand at 0
InitAnyClock ==
    /\ deployer \in Senders
    /\ owner = Constructor(deployer)
    /\ pitchScores = [ id \in PitchIds |-> EmptyEntry ]
    /\ events = << >>
    /\ blockTimestamp \in ClockValues
    /\ written = [ id \in PitchIds |-> NoWrite ]
    /\ firstValid = [ id \in PitchIds |-> NoWrite ]
    /\ last = NoCall

RecordStepAnyClock ==
    \E msgSender \in Senders, now \in ClockValues, pitchId \in PitchIds,
       overallScore \in OverallScores, comp \in ComponentScores,
       zkpHash \in ZkpHashes :
        /\ Len(events) < MaxEvents
        /\ recordPitchScore(msgSender, now, pitchId, overallScore, comp, zkpHash)
        /\ UNCHANGED uiVars

NextAnyClock == RecordStepAnyClock \/ GetStep \/ GetterStep

SpecAnyClockInit == InitAnyClock /\ UiInit
SpecAnyClock == SpecAnyClockInit /\ [][NextAnyClock]_<<vars, uiVars>>

\* the page; it sends nothing to the registry, which stays as deployed
SpecUIInit == Init /\ deployer = "0xA1" /\ blockTimestamp = 1 /\ UiInit
SpecUI == SpecUIInit /\ [][UiNext]_<<vars, uiVars>>

\* the page when every awaited promise settles: FileReader fires load or
\* error for every readAsText, and the timer of simulateAgentRun fires
ReadSettlesStep == ReadSettles /\ UNCHANGED vars
AgentSettlesStep == AgentSettles /\ UNCHANGED vars
SpecUILiveInit == Init /\ deployer = "0xA1" /\ blockTimestamp = 1 /\ UiInit
SpecUILive ==
    /\ SpecUILiveInit
    /\ [][UiNext]_<<vars, uiVars>>
    /\ WF_<<vars, uiVars>>(ReadSettlesStep)
    /\ WF_<<vars, uiVars>>(AgentSettlesStep)

\* ------------------------------------------------------------ properties
\* In a step, last' is the call the step executes and the unprimed variables
\* are the state the call starts in.

IsRecord(call) == call.op = "recordPitchScore"
IsGet(call) == call.op = "getPitchScore"
\* a call of recordPitchScore for this id has succeeded
Recorded(pitchId) == written[pitchId] # NoWrite
\* the state of the contract itself
Persisted == <<owner, pitchScores, events>>
\* the eight values a successful write is meant to leave readable
WrittenFields(pitchId) ==
    LET w == written[pitchId]
    IN  << w.overallScore, w.comp[1], w.comp[2], w.comp[3], w.comp[4],
           w.zkpHash, w.now, w.sender >>

\* C1 as stated: once a recordPitchScore for a pitchId has succeeded, every
\* later recordPitchScore for that pitchId fails with "Pitch score already
\* recorded for this ID", whoever calls it, and leaves the record unchanged.
C1_AnyCallerDuplicate ==
    [][ (IsRecord(last') /\ Recorded(last'.pitchId)) =>
            /\ last'.status = ErrAlreadyRecorded
            /\ pitchScores'[last'.pitchId] = pitchScores[last'.pitchId] ]_vars

\* C1 amended: once a recordPitchScore for a pitchId has succeeded, every
\* later recordPitchScore for that pitchId fails, whatever its payload: with
\* "Pitch score already recorded for this ID" when the owner calls, with
\* "Only owner can call this function" when anyone else calls; the stored
\* record is unchanged by the failed call.
C1_WriteOnce ==
    [][ (IsRecord(last') /\ Recorded(last'.pitchId)) =>
            /\ last'.status =
                  IF last'.sender = owner THEN ErrAlreadyRecorded
                  ELSE ErrOnlyOwner
            /\ pitchScores'[last'.pitchId] = pitchScores[last'.pitchId] ]_vars

\* the owner has called again for a recorded id with another payload
C1_Witness ==
    /\ IsRecord(last)
    /\ last.status = ErrAlreadyRecorded
    /\ last.overallScore > 0
    /\ last.comp # written[last.pitchId].comp
    /\ last.zkpHash # written[last.pitchId].zkpHash
    /\ pitchScores[last.pitchId].clarityScore = 0

\* C2: a recordPitchScore whose caller is not the owner fails with "Only
\* owner can call this function" and changes neither the mapping, the owner
\* nor the event log; when the id was unrecorded, getPitchScore for it still
\* fails with "Pitch score not found for this ID".
C2_Authorization ==
    [][ (IsRecord(last') /\ last'.sender # owner) =>
            /\ last'.status = ErrOnlyOwner
            /\ Persisted' = Persisted
            /\ \A pitchId \in PitchIds :
                  (pitchId = last'.pitchId /\ ~Recorded(pitchId)) =>
                      GetPitchScoreResult(pitchId)'.status = ErrNotFound ]_vars

\* a stranger has called with a positive score for an unrecorded id
C2_Witness ==
    /\ IsRecord(last)
    /\ last.sender # owner
    /\ last.overallScore > 0
    /\ ~Recorded(last.pitchId)
    /\ last.status = ErrOnlyOwner

\* C3: a recordPitchScore by the owner for an unrecorded id with
\* overallScore = 0 fails with "Overall score must be positive" and persists
\* nothing; getPitchScore for that id still fails with "Pitch score not
\* found for this ID".
C3_PositivityOnWrite ==
    [][ ( /\ IsRecord(last')
          /\ last'.sender = owner
          /\ ~Recorded(last'.pitchId)
          /\ last'.overallScore = 0 ) =>
            /\ last'.status = ErrNotPositive
            /\ Persisted' = Persisted
            /\ \A pitchId \in PitchIds :
                  pitchId = last'.pitchId =>
                      GetPitchScoreResult(pitchId)'.status = ErrNotFound ]_vars

\* the owner has called with overallScore = 0 for an unrecorded id
C3_Witness ==
    /\ IsRecord(last)
    /\ last.sender = owner
    /\ last.overallScore = 0
    /\ last.comp[1] # 0
    /\ ~Recorded(last.pitchId)
    /\ last.status = ErrNotPositive

\* C4: in every state and for every pitchId, getPitchScore fails with
\* "Pitch score not found for this ID" when no write for the id has
\* succeeded, and otherwise returns the overall score, the four component
\* scores and the proof hash submitted in the successful write with the
\* block timestamp and the sender of that write; a call of getPitchScore
\* gets exactly that.
C4_ReadConsistency ==
    /\ \A pitchId \in PitchIds :
          GetPitchScoreResult(pitchId) =
              IF Recorded(pitchId)
              THEN [ status |-> Ok, ret |-> WrittenFields(pitchId) ]
              ELSE [ status |-> ErrNotFound ]
    /\ IsGet(last) =>
          /\ last.status = (IF Recorded(last.pitchId) THEN Ok ELSE ErrNotFound)
          /\ Recorded(last.pitchId) => last.ret = WrittenFields(last.pitchId)

\* a stranger has read a record with non-zero components while another id
\* is still unrecorded
C4_Witness ==
    /\ IsGet(last)
    /\ last.sender # owner
    /\ last.status = Ok
    /\ last.ret[2] # 0
    /\ last.ret[7] = MaxTime
    /\ \E pitchId \in PitchIds : ~Recorded(pitchId)

\* C5: a successful recordPitchScore appends exactly one event to the log,
\* whose pitchId is the call's and whose overallScore, zkpHash, timestamp
\* and recordedBy are those of the entry the call stored; a failed
\* recordPitchScore leaves the log as it was.
C5_NotificationCorrespondence ==
    [][ IsRecord(last') =>
          IF last'.status = Ok
          THEN /\ Len(events') = Len(events) + 1
               /\ SubSeq(events', 1, Len(events)) = events
               /\ LET e == events'[Len(events')]
                      r == pitchScores'[last'.pitchId]
                  IN  /\ e.pitchId = last'.pitchId
                      /\ e.overallScore = r.overallScore
                      /\ e.zkpHash = r.zkpHash
                      /\ e.timestamp = r.timestamp
                      /\ e.recordedBy = r.recordedBy
                      /\ r # EmptyEntry
          ELSE events' = events ]_vars

\* a second write has succeeded, after an earlier event
C5_Witness ==
    /\ IsRecord(last)
    /\ last.status = Ok
    /\ Len(events) = 2
    /\ events[2].pitchId = last.pitchId
    /\ events[2].timestamp = MaxTime

\* C6: the outcome of recordPitchScore is decided in the order
\* authorization, duplicate check, score check: "Only owner can call this
\* function" whenever the caller is not the owner; "Pitch score already
\* recorded for this ID" whenever the owner calls for a recorded id;
\* "Overall score must be positive" only when the owner calls for an
\* unrecorded id with overallScore = 0; success otherwise.
C6_PreconditionOrder ==
    [][ IsRecord(last') =>
          last'.status =
              IF last'.sender # owner THEN ErrOnlyOwner
              ELSE IF Recorded(last'.pitchId) THEN ErrAlreadyRecorded
              ELSE IF last'.overallScore = 0 THEN ErrNotPositive
              ELSE Ok ]_vars

\* the owner has called with overallScore = 0 for a recorded id
C6_Witness ==
    /\ IsRecord(last)
    /\ last.sender = owner
    /\ Recorded(last.pitchId)
    /\ last.overallScore = 0
    /\ last.status = ErrAlreadyRecorded

\* C7: a recordPitchScore or getPitchScore that fails leaves the mapping
\* (every id), the owner and the event log as they were.
C7_AllOrNothing ==
    [][ ((IsRecord(last') \/ IsGet(last')) /\ last'.status # Ok) =>
            /\ pitchScores' = pitchScores
            /\ owner' = owner
            /\ events' = events ]_vars

\* a call has failed in a state that holds a record
C7_Witness ==
    /\ IsRecord(last)
    /\ last.status = ErrNotPositive
    /\ last.comp[1] # 0
    /\ events # << >>

\* C8: an entry that holds a record is the same in the next state, so the
\* set of ids that hold a record never shrinks.
C8_Immutability ==
    [][ \A pitchId \in PitchIds :
            pitchScores[pitchId] # EmptyEntry =>
                pitchScores'[pitchId] = pitchScores[pitchId] ]_vars

\* every id holds a record and the owner has tried to write once more
C8_Witness ==
    /\ \A pitchId \in PitchIds : pitchScores[pitchId] # EmptyEntry
    /\ IsRecord(last)
    /\ last.sender = owner
    /\ last.status = ErrAlreadyRecorded

\* C9: owner is the deployer after construction and no step changes it.
C9_FixedOwner ==
    /\ owner = deployer
    /\ [][ owner' = owner /\ deployer' = deployer ]_vars

\* calls by the owner and by a stranger have run
C9_Witness ==
    /\ IsRecord(last)
    /\ last.sender # deployer
    /\ events # << >>
    /\ owner = deployer

\* C10: every recorded id's entry has recordedBy equal to the owner and
\* timestamp equal to the timestamp of the block of its successful write.
C10_Provenance ==
    \A pitchId \in PitchIds :
        Recorded(pitchId) =>
            /\ pitchScores[pitchId].recordedBy = owner
            /\ pitchScores[pitchId].timestamp = written[pitchId].now

\* two records written in different blocks
C10_Witness ==
    /\ \A pitchId \in PitchIds : Recorded(pitchId)
    /\ \E a, b \in PitchIds :
          pitchScores[a].timestamp < pitchScores[b].timestamp
    /\ blockTimestamp = MaxTime

\* what a call gave its caller
CallResult(call) ==
    IF call.status = Ok THEN [ status |-> Ok, ret |-> call.ret ]
    ELSE [ status |-> call.status ]
IsGetter(call) == call.op = "pitchScores"
\* the ids that hold a successful write
RecordedIds == { pitchId \in PitchIds : Recorded(pitchId) }
\* the entry a successful call is meant to leave in the mapping
EntryOfWrite(w) ==
    [ overallScore |-> w.overallScore, clarityScore |-> w.comp[1],
      originalityScore |-> w.comp[2], teamStrengthScore |-> w.comp[3],
      marketFitScore |-> w.comp[4], zkpHash |-> w.zkpHash,
      timestamp |-> w.now, recordedBy |-> w.sender ]

\* C11: in every reachable state, every pitchId that holds a record has an
\* overallScore strictly greater than 0.
C11_PositivityInvariant ==
    \A pitchId \in PitchIds :
        (Recorded(pitchId) \/ pitchScores[pitchId] # EmptyEntry) =>
            pitchScores[pitchId].overallScore > 0

\* a record written with the smallest payload: zero components, zero hash
C11_Witness ==
    \E pitchId \in PitchIds :
        /\ Recorded(pitchId)
        /\ pitchScores[pitchId].overallScore = 1
        /\ pitchScores[pitchId].clarityScore = 0
        /\ pitchScores[pitchId].zkpHash = ZeroBytes32

\* C12: a getPitchScore by any sender changes neither the mapping, the
\* owner nor the event log, and what it gives is what every sender gets for
\* that pitchId in that state.
C12_PurePublicRead ==
    [][ IsGet(last') =>
          /\ Persisted' = Persisted
          /\ \A msgSender \in Senders :
                GetPitchScoreCall(msgSender, last'.pitchId) = CallResult(last') ]_vars

\* a stranger has read a record
C12_Witness ==
    /\ IsGet(last)
    /\ last.sender # owner
    /\ last.status = Ok
    /\ last.ret[8] = owner

\* C13 as stated: a public read of a pitchId gives the record of a
\* successful write for it, or fails when there is none; this for
\* getPitchScore and for the generated getter pitchScores.
C13_ReadsSignalNotFound ==
    (IsGet(last) \/ IsGetter(last)) =>
        IF Recorded(last.pitchId)
        THEN last.status = Ok /\ last.ret = WrittenFields(last.pitchId)
        ELSE last.status # Ok

\* the log in one state: one event per recorded id, in the order of time
C14_LogShape ==
    /\ Len(events) = Cardinality(RecordedIds)
    /\ \A i, j \in 1 .. Len(events) :
          /\ i # j => events[i].pitchId # events[j].pitchId
          /\ i < j => events[i].timestamp <= events[j].timestamp

\* the log in one step: a successful write appends its event, no other
\* step touches the log
C14_LogStep ==
    IF IsRecord(last') /\ last'.status = Ok
    THEN /\ Len(events') = Len(events) + 1
         /\ SubSeq(events', 1, Len(events)) = events
         /\ events'[Len(events')].pitchId = last'.pitchId
    ELSE events' = events

\* C14: the event log only grows, by one event at its end in exactly the
\* steps that are a successful write and for that write's pitchId; it holds
\* at most one event per pitchId, as many events as there are recorded ids,
\* and its timestamps never decrease.
C14_AppendOnlyLog == []C14_LogShape /\ [][C14_LogStep]_vars

\* the log holds two events, of writes in different blocks
C14_Witness ==
    /\ Len(events) = 2
    /\ events[1].timestamp < events[2].timestamp
    /\ ~IsRecord(last)

\* per id: the successful call is the first valid one and its payload is
\* the stored one
C15_OnePerId ==
    \A pitchId \in PitchIds :
        /\ written[pitchId] = firstValid[pitchId]
        /\ Cardinality({ i \in 1 .. Len(events) :
                            events[i].pitchId = pitchId }) <= 1
        /\ Recorded(pitchId) =>
              pitchScores[pitchId] = EntryOfWrite(firstValid[pitchId])

\* C15 as stated: per pitchId at most one call succeeds, the first one the
\* owner makes with overallScore > 0, whose payload is stored; every other
\* call of recordPitchScore by the owner fails with "Pitch score already
\* recorded for this ID".
C15_OthersAllDuplicate ==
    /\ []C15_OnePerId
    /\ [][ (IsRecord(last') /\ last'.sender = owner /\ last'.status # Ok) =>
              last'.status = ErrAlreadyRecorded ]_vars

\* the calls of the owner that fail
C15_OtherCalls ==
    (IsRecord(last') /\ last'.sender = owner /\ last'.status # Ok) =>
        IF Recorded(last'.pitchId)
        THEN last'.status = ErrAlreadyRecorded
        ELSE last'.status = ErrNotPositive /\ last'.overallScore = 0

\* C15 amended: in every serial order of recordPitchScore calls, per
\* pitchId at most one call succeeds; it is the first call in the order that
\* the owner makes with overallScore > 0, and the stored record carries its
\* payload; every other call by the owner for the id fails, with "Pitch
\* score already recorded for this ID" when it comes after the successful
\* call and with "Overall score must be positive" when it comes before it.
C15_SerializedWriters == []C15_OnePerId /\ [][C15_OtherCalls]_vars

\* the owner's call with another payload, in a later block, has failed
\* after the first valid call for the id
C15_Witness ==
    /\ IsRecord(last)
    /\ last.sender = owner
    /\ last.status = ErrAlreadyRecorded
    /\ last.overallScore > 0
    /\ last.comp # firstValid[last.pitchId].comp
    /\ last.now > firstValid[last.pitchId].now

\* C16: in every state each pitchId maps to the default entry, or to an
\* entry whose eight fields are those of one successful call.
C16_SnapshotReads ==
    \A pitchId \in PitchIds :
        pitchScores[pitchId] =
            IF Recorded(pitchId) THEN EntryOfWrite(written[pitchId])
            ELSE EmptyEntry

\* a reader looks at the mapping between two writes
C16_Witness ==
    /\ IsGetter(last)
    /\ Cardinality(RecordedIds) = 1
    /\ \E pitchId \in RecordedIds : pitchScores[pitchId].zkpHash # ZeroBytes32

\* C17: a recordPitchScore by the owner for an unrecorded pitchId with
\* overallScore > 0 succeeds and stores its payload, whatever the component
\* scores and the proof hash are.
C17_PermissivePayload ==
    [][ ( /\ IsRecord(last')
          /\ last'.sender = owner
          /\ ~Recorded(last'.pitchId)
          /\ last'.overallScore > 0 ) =>
            /\ last'.status = Ok
            /\ pitchScores'[last'.pitchId] = EntryOfWrite(last') ]_vars

\* writes have succeeded with components above the overall score and a zero
\* hash, and with zero components
C17_Witness ==
    /\ IsRecord(last)
    /\ last.status = Ok
    /\ last.comp[1] > last.overallScore
    /\ last.zkpHash = ZeroBytes32
    /\ \E pitchId \in PitchIds :
          /\ pitchId # last.pitchId
          /\ Recorded(pitchId)
          /\ pitchScores[pitchId].marketFitScore = 0

\* C18 as stated: after a successful recordPitchScore, whatever the clock
\* stood at, getPitchScore for the pitchId succeeds and a recordPitchScore
\* by the owner for it fails with "Pitch score already recorded for this ID".
C18_ExistsWhateverTheClock ==
    \A pitchId \in PitchIds :
        Recorded(pitchId) =>
            /\ GetPitchScoreResult(pitchId).status = Ok
            /\ \A overallScore \in OverallScores :
                  RecordStatus(owner, pitchId, overallScore) = ErrAlreadyRecorded

\* ------------------------------------------------- properties of the page

\* C19 as stated: after every run of the Analyze handler that called
\* showMessage, neither the message box nor the results section that
\* contains it carries the class hidden.
C19_MessagesVisible ==
    lastRun.messaged => (~dom.messageHidden /\ ~dom.resultsHidden)

\* a handler is suspended and both buttons are disabled
C20_InFlight ==
    /\ Len(handlers) <= 1
    /\ handlers # << >> => (dom.analyzeDisabled /\ dom.clearDisabled)

\* while a handler is suspended no click handler runs
C20_NoClick ==
    handlers # << >> => lastRun'.handler \notin { "analyzeClick", "clear" }

\* C20: while a run of the Analyze click handler is suspended at the file
\* read or at the agent call, the Analyze and Clear buttons are disabled, at
\* most one run is suspended, and no step runs a click handler of Analyze
\* or Clear.
C20_OneAnalysisInFlight == []C20_InFlight /\ [][C20_NoClick]_uiVars

\* the user has typed while the handler of the second analysis waits for
\* the agent
C20_Witness ==
    /\ Len(handlers) = 1
    /\ handlers[1].pc = "agent"
    /\ handlers[1].inputType = "file"
    /\ pitchIdCounter = 2
    /\ lastRun.handler = "input"
    /\ dom.analyzeDisabled
    /\ dom.clearDisabled

\* the loading state is off in d: both buttons enabled, the spinner hidden,
\* the button text back to 'Analyze Pitch'
LoadingOff(d) ==
    /\ ~d.analyzeDisabled
    /\ ~d.clearDisabled
    /\ d.spinnerHidden
    /\ d.buttonText = "Analyze Pitch"

\* the paths on which a run of the Analyze click handler ends
EndPaths ==
    { "noInput", "textTooLong", "fileTooLarge", "readError",
      "failed", "rejected", "completed" }

\* the latest step ended a run of the Analyze click handler
AnalyzeRunEnded ==
    /\ lastRun.handler \in { "analyzeClick", "analyzeResume" }
    /\ lastRun.path \in EndPaths

\* a run of the Analyze click handler that has ended left the loading state
\* off, and the loading state is on only while a run is suspended
C21_EndsWithLoadingOff ==
    /\ AnalyzeRunEnded => LoadingOff(dom)
    /\ handlers = << >> => LoadingOff(dom)

\* C21: every run of the Analyze click handler ends, on each of its paths,
\* with the loading state off, and when the file read and the agent call
\* settle every run that is suspended eventually ends that way.
C21_LoadingAlwaysClears ==
    /\ []C21_EndsWithLoadingOff
    /\ (handlers # << >>) ~> (AnalyzeRunEnded /\ LoadingOff(dom))

\* a run that read a file and got the agent's response has ended with the
\* loading state off
C21_Witness ==
    /\ lastRun = Ran("analyzeResume", "completed", TRUE)
    /\ sentIds # << >>
    /\ dom.pitchFile \in Files
    /\ handlers = << >>
    /\ LoadingOff(dom)

\* the number a decimal digit sequence denotes
RECURSIVE DigitsValue(_)
DigitsValue(digits) ==
    IF digits = << >> THEN 0
    ELSE DigitsValue(SubSeq(digits, 1, Len(digits) - 1)) * 10
             + digits[Len(digits)]

\* the number after the prefix "pitch_" of a pitch id
IdNumber(pitchId) == DigitsValue(Tail(pitchId))

\* the paths on which a run of the Analyze click handler rejects its input
RejectPaths == { "noInput", "textTooLong", "fileTooLarge", "readError" }

\* the ids sent so far are as many as the counter says, pairwise distinct
\* and in increasing order of their numbers; a suspended run holds an id
\* exactly when it has passed validation, and then the latest one
C22_Ids ==
    /\ Len(sentIds) = pitchIdCounter
    /\ \A i, j \in 1 .. Len(sentIds) :
          i < j => /\ sentIds[i] # sentIds[j]
                   /\ IdNumber(sentIds[i]) < IdNumber(sentIds[j])
    /\ \A i \in 1 .. Len(handlers) :
          IF handlers[i].pc = "agent"
          THEN handlers[i].pitchId = sentIds[Len(sentIds)]
          ELSE handlers[i].pitchId = << >>

\* a step that passes validation increments the counter by one and sends
\* one new id; every other step, a rejected input among them, leaves the
\* counter and the ids sent alone
C22_Step ==
    IF lastRun'.handler \in { "analyzeClick", "analyzeResume" }
       /\ lastRun'.path = "awaitAgent"
    THEN /\ pitchIdCounter' = pitchIdCounter + 1
         /\ Len(sentIds') = Len(sentIds) + 1
         /\ SubSeq(sentIds', 1, Len(sentIds)) = sentIds
         /\ IdNumber(sentIds'[Len(sentIds')]) = pitchIdCounter'
    ELSE /\ pitchIdCounter' = pitchIdCounter
         /\ sentIds' = sentIds

\* C22: pitchIdCounter is incremented exactly once by every run of the
\* Analyze click handler that passes input validation and by no other step
\* (no input, oversize file, oversize text, file-read error), and the pitch
\* ids sent to the agent are pairwise distinct and strictly increasing in
\* the order of the clicks.
C22_SessionPitchIds == []C22_Ids /\ [][C22_Step]_uiVars

\* after a first analysis of typed text, a click with an unreadable file
\* was rejected: one id sent, the counter still at 1
C22_RejectedWitness ==
    /\ lastRun = Ran("analyzeResume", "readError", TRUE)
    /\ pitchIdCounter = 1
    /\ sentIds = << << "pitch_", 0, 0, 1 >> >>

\* the second analysis of the session has been sent to the agent
C22_Witness ==
    /\ lastRun = Ran("analyzeResume", "awaitAgent", FALSE)
    /\ pitchIdCounter = 2
    /\ sentIds = << << "pitch_", 0, 0, 1 >>, << "pitch_", 0, 0, 2 >> >>
    /\ Len(handlers) = 1
    /\ handlers[1].pitchId = << "pitch_", 0, 0, 2 >>

\* the latest step resumed a run with an agent response whose status is
\* not 'failed'
ShowedResults ==
    /\ lastRun.handler = "analyzeResume"
    /\ lastRun.path \in AgentOutcomes \ { "failed", "rejected" }

\* the results section is hidden while an analysis is loading and after
\* every click on Analyze or Clear, rejected input, failed analysis and
\* exception; when it is visible it shows a response that did not fail
C23_HiddenStates ==
    /\ handlers # << >> => dom.resultsHidden
    /\ ~LoadingOff(dom) => dom.resultsHidden
    /\ lastRun.handler \in { "load", "analyzeClick", "clear" }
           => dom.resultsHidden
    /\ (lastRun.handler = "analyzeResume" /\ ~ShowedResults)
           => dom.resultsHidden
    /\ ~dom.resultsHidden
           => dom.statusText \in AgentOutcomes \ { "failed", "rejected" }

\* the results section is visible after a step only if the step resumed a
\* run with a response that did not fail, or if it was visible before and
\* the step ran no click handler
C23_Step ==
    ~dom'.resultsHidden =>
        \/ ShowedResults'
        \/ ~dom.resultsHidden /\ lastRun'.handler = "input"

\* C23: the results section is visible only in states reached by an
\* Analyze run whose agent response had a status other than 'failed' and
\* that no Clear and no new Analyze click has followed; it is hidden while
\* an analysis is loading and after every rejected input, failed analysis,
\* exception or Clear.
C23_ResultsVisibility == []C23_HiddenStates /\ [][C23_Step]_uiVars

\* the results of a completed analysis are still shown after the user has
\* typed into the textarea
C23_Witness ==
    /\ ~dom.resultsHidden
    /\ dom.statusText = "completed"
    /\ lastRun.handler = "input"
    /\ pitchIdCounter = 1
    /\ handlers = << >>

====
